---- MODULE Spec2Model ----
(***************************************************************************)
(* Sprite-sheet animation engine of the character plugin                   *)
(* (chapter3/src/characters): clip addressing, the per-tick animation      *)
(* update, the flag commit, character spawn/switch, and the Update         *)
(* schedule that runs them.                                                *)
(*                                                                         *)
(* Time is counted in units of 0.1 s, so DEFAULT_ANIMATION_FRAME_TIME      *)
(* (0.1 s) is 1.                                                           *)
(***************************************************************************)
EXTENDS Integers, Sequences, FiniteSets, TLC

VARIABLES
    ent,              \* entity id -> components of the entity (see PlayerSpawned)
    pending,          \* systems of the Update schedule that have not run yet this tick
    loaded,           \* Assets<CharactersList> holds the list (the asset finished loading)
    characters,       \* the loaded CharactersList.characters (content, never changes)
    character_index,  \* CurrentCharacterIndex.index
    queued,           \* Commands queue: the deferred insert of initialize_player_character
    crashed,          \* a system panicked
    call,             \* a call of one of the pure functions: its arguments and result
    monitor           \* the PerformanceMonitor resource (performance/mod.rs)

vars == <<ent, pending, loaded, characters, character_index, queued, crashed, call,
          monitor>>

----------------------------------------------------------------------------
(* Bounds of the model *)

\* time.delta() of a tick ranges over 0..MaxDelta (units of 0.1 s)
MaxDelta == 2
\* the components of a motion vector range over -MaxCoord..MaxCoord
MaxCoord == 4
\* digit keys Digit1..Digit(MaxKey+1) are the ones pressed (DIGIT_KEYS has 9)
MaxKey == 2
\* PerformanceMonitor::update is called at most MaxUpdates times
MaxUpdates == 62
\* whole seconds since last_fps_time at a call of update: 0..MaxSecs
MaxSecs == 2
\* width of usize in bits, scaled down from 64
UsizeBits == 5
\* start_row of an animation definition ranges over 0..MaxStartRow, so a clip's
\* row over 0..MaxStartRow+3
MaxStartRow == 1
\* frame_count ranges over 0..MaxFrames
MaxFrames == 4
\* atlas_columns ranges over 1..MaxColumns
MaxColumns == 6

UsizeMax == 2 ^ UsizeBits - 1

Deltas == 0 .. MaxDelta

\* frame indices: every usize
Indices == 0 .. UsizeMax

----------------------------------------------------------------------------
(* Program constants and types *)

DEFAULT_ANIMATION_FRAME_TIME == 1

Player == 1

FacingValues == {"Up", "Left", "Down", "Right"}

AnimationTypes == {"Walk", "Jump"}

Systems == {"initialize_player_character", "switch_character", "move_player",
            "update_jump_state", "animate_characters", "update_animation_flags"}

\* Option<T>
None == [some |-> FALSE, value |-> 0]
Some(v) == [some |-> TRUE, value |-> v]

\* no pure function is being called
NoCall == [fn |-> "none", done |-> FALSE, ret |-> << >>]

\* PerformanceMonitor::default.  last_fps_time is kept by the clock (see
\* PerformanceMonitor_update); `arrivals` counts the calls of update
\* (observation only).
PerformanceMonitor_default ==
    [frame_count |-> 0, fps |-> 0, frame_times |-> << >>, max_frame_times |-> 60,
     arrivals |-> 0]

----------------------------------------------------------------------------
(* Facing *)

Abs(x) == IF x < 0 THEN -x ELSE x

\* faulty variant of from_direction: the sign test of x is inverted
FromDirectionMirrored(direction) ==
    IF Abs(direction.x) > Abs(direction.y)
    THEN (IF direction.x < 0 THEN "Right" ELSE "Left")
    ELSE (IF direction.y > 0 THEN "Up" ELSE "Down")

\* faulty variant of from_direction: `>=`, so a tie goes to the horizontal branch
FromDirectionTieHorizontal(direction) ==
    IF Abs(direction.x) >= Abs(direction.y)
    THEN (IF direction.x > 0 THEN "Right" ELSE "Left")
    ELSE (IF direction.y > 0 THEN "Up" ELSE "Down")

\* Facing::from_direction
from_direction(direction) ==
    IF Abs(direction.x) > Abs(direction.y)
    THEN (IF direction.x > 0 THEN "Right" ELSE "Left")
    ELSE (IF direction.y > 0 THEN "Up" ELSE "Down")

\* faulty variant of direction_index: the rows of Left and Down are exchanged
DirectionIndexLeftDownSwapped(facing) ==
    CASE facing = "Up" -> 0
      [] facing = "Left" -> 2
      [] facing = "Down" -> 1
      [] facing = "Right" -> 3

\* Facing::direction_index
direction_index(facing) ==
    CASE facing = "Up" -> 0
      [] facing = "Left" -> 1
      [] facing = "Down" -> 2
      [] facing = "Right" -> 3

----------------------------------------------------------------------------
(* AnimationClip.  usize arithmetic: `first + frame_count - 1` underflows   *)
(* when first + frame_count = 0; with overflow checks the program panics,   *)
(* without them the value wraps to usize::MAX.                              *)

\* faulty variant of AnimationClip_new: last is one past the last frame
ClipNewLastOnePast(row, frame_count, atlas_columns) ==
    LET first == row * atlas_columns
    IN  [first |-> first, last |-> first + frame_count,
         underflow |-> (first + frame_count = 0)]

\* AnimationClip::new; `underflow` tells that the subtraction wrapped
AnimationClip_new(row, frame_count, atlas_columns) ==
    LET first == row * atlas_columns
    IN  [first |-> first,
         last |-> IF first + frame_count = 0 THEN UsizeMax ELSE first + frame_count - 1,
         underflow |-> (first + frame_count = 0)]

\* AnimationClip::start
start(clip) == clip.first

\* AnimationClip::contains
contains(clip, index) == clip.first <= index /\ index <= clip.last

\* faulty variant of next: `>` in place of `>=`
NextWrapsAfterLast(clip, index) == IF index > clip.last THEN clip.first ELSE index + 1

\* faulty variant of next: the last frame is held, the clip does not loop
NextStopsAtLast(clip, index) == IF index >= clip.last THEN clip.last ELSE index + 1

\* faulty variant of next: the clip wraps to frame 0 of the atlas
NextWrapsToZero(clip, index) == IF index >= clip.last THEN 0 ELSE index + 1

\* AnimationClip::next
next(clip, index) == IF index >= clip.last THEN clip.first ELSE index + 1

\* faulty variant of is_complete: the timer is not consulted
IsCompleteIgnoresTimer(clip, current_index, timer_finished) ==
    current_index >= clip.last

\* AnimationClip::is_complete
is_complete(clip, current_index, timer_finished) ==
    current_index >= clip.last /\ timer_finished

----------------------------------------------------------------------------
(* AnimationController::get_clip.  config is a CharacterEntry:              *)
(* [atlas_columns, animations], animations a map AnimationType -> def.      *)

HasAnimation(config, kind) == kind \in DOMAIN config.animations

\* faulty variant of get_clip: the facing offset is added to every definition
GetClipAlwaysDirectional(controller, config) ==
    IF ~HasAnimation(config, controller.current_animation)
    THEN None
    ELSE LET def == config.animations[controller.current_animation]
             row == def.start_row + direction_index(controller.facing)
         IN  Some(AnimationClip_new(row, def.frame_count, config.atlas_columns))

\* faulty variant of get_clip: the facing offset is never added
GetClipIgnoresFacing(controller, config) ==
    IF ~HasAnimation(config, controller.current_animation)
    THEN None
    ELSE LET def == config.animations[controller.current_animation]
         IN  Some(AnimationClip_new(def.start_row, def.frame_count, config.atlas_columns))

\* AnimationController::get_clip
get_clip(controller, config) ==
    IF ~HasAnimation(config, controller.current_animation)
    THEN None
    ELSE LET def == config.animations[controller.current_animation]
             row == IF def.directional
                    THEN def.start_row + direction_index(controller.facing)
                    ELSE def.start_row
         IN  Some(AnimationClip_new(row, def.frame_count, config.atlas_columns))

----------------------------------------------------------------------------
(* Character catalogues (the content of characters.ron).  Character 0 has   *)
(* the layout of the walking example: 6 columns, Walk directional from row  *)
(* 0 with 4 frames, so Down is [12,15] and Right is [18,21].  Character 1   *)
(* has no Jump animation.                                                   *)

ValidCharacters ==
    << [atlas_columns |-> 6,
        animations |-> [Walk |-> [start_row |-> 0, frame_count |-> 4,
                                  frame_time |-> 2, directional |-> TRUE],
                        Jump |-> [start_row |-> 4, frame_count |-> 2,
                                  frame_time |-> 1, directional |-> FALSE]]],
       [atlas_columns |-> 4,
        animations |-> [Walk |-> [start_row |-> 0, frame_count |-> 2,
                                  frame_time |-> 1, directional |-> TRUE]]] >>

\* a catalogue whose definitions have frame_count = 0
ZeroFrameCharacters ==
    << [atlas_columns |-> 6,
        animations |-> [Walk |-> [start_row |-> 0, frame_count |-> 0,
                                  frame_time |-> 2, directional |-> TRUE],
                        Jump |-> [start_row |-> 0, frame_count |-> 0,
                                  frame_time |-> 1, directional |-> FALSE]]] >>

\* characters_list.characters[i], i counted from 0
CharacterAt(i) == characters[i + 1]

NumCharacters == Len(characters)

----------------------------------------------------------------------------
(* Entities.  One record per entity holds its components:                   *)
(*   has                      AnimationController, AnimationState,          *)
(*                            AnimationTimer and CharacterEntry are present *)
(*   current_animation,facing AnimationController                           *)
(*   is_moving .. was_jumping AnimationState                                *)
(*   duration, elapsed        AnimationTimer (a repeating Timer)            *)
(*   atlas                    Sprite.texture_atlas: Option of the index     *)
(*   entry                    CharacterEntry, as its index in the catalogue *)
(*   branch, clamped          what animate_characters did with the entity   *)
(*                            in this tick (observation only)               *)
(*   moving_changed,          is_moving / is_jumping was written in this    *)
(*   jumping_changed          tick with a value other than the one it had   *)
(*                            when the previous tick ended (observation)    *)
(*   just_inserted            the components were inserted when the         *)
(*                            previous tick ended (observation)             *)

\* spawn_player: Player, Transform, Sprite::default()
PlayerSpawned ==
    [has |-> FALSE, current_animation |-> "Walk", facing |-> "Down",
     is_moving |-> FALSE, was_moving |-> FALSE,
     is_jumping |-> FALSE, was_jumping |-> FALSE,
     duration |-> DEFAULT_ANIMATION_FRAME_TIME, elapsed |-> 0,
     atlas |-> None, entry |-> 0, branch |-> "none", clamped |-> FALSE,
     moving_changed |-> FALSE, jumping_changed |-> FALSE, just_inserted |-> FALSE]

\* faulty variant of InsertedBundle: the controller starts facing Up
InsertedBundleFacingUp(r, i) ==
    [r EXCEPT !.has = TRUE,
              !.current_animation = "Walk", !.facing = "Up",
              !.is_moving = FALSE, !.was_moving = FALSE,
              !.is_jumping = FALSE, !.was_jumping = FALSE,
              !.duration = DEFAULT_ANIMATION_FRAME_TIME, !.elapsed = 0,
              !.entry = i, !.atlas = Some(0), !.just_inserted = TRUE]

\* the bundle initialize_player_character inserts for character i
InsertedBundle(r, i) ==
    [r EXCEPT !.has = TRUE,
              !.current_animation = "Walk", !.facing = "Down",
              !.is_moving = FALSE, !.was_moving = FALSE,
              !.is_jumping = FALSE, !.was_jumping = FALSE,
              !.duration = DEFAULT_ANIMATION_FRAME_TIME, !.elapsed = 0,
              !.entry = i, !.atlas = Some(0), !.just_inserted = TRUE]

Config(r) == CharacterAt(r.entry)

----------------------------------------------------------------------------
(* Timer (TimerMode::Repeating).  finished/times_finished_this_tick are     *)
(* only read by just_finished() right after tick() in the same call, so     *)
(* they are computed there and not kept.                                    *)

\* Timer::reset
Timer_reset(r) == [r EXCEPT !.elapsed = 0]

\* Timer::set_duration
Timer_set_duration(r, d) == [r EXCEPT !.duration = d]

\* Timer::tick followed by Timer::just_finished
Timer_just_finished(r, delta) == r.elapsed + delta >= r.duration

\* Timer::tick: a repeating timer keeps the remainder
Timer_tick(r, delta) ==
    [r EXCEPT !.elapsed = IF r.elapsed + delta >= r.duration
                          THEN (IF r.duration = 0 THEN 0
                                ELSE (r.elapsed + delta) % r.duration)
                          ELSE r.elapsed + delta]

----------------------------------------------------------------------------
(* animate_characters, the body of the loop for one entity                  *)

\* faulty variant of Clamp: the frame is snapped but the timer is not reset
ClampNoTimerReset(r, clip) ==
    IF ~contains(clip, r.atlas.value)
    THEN [r EXCEPT !.atlas = Some(start(clip)), !.clamped = TRUE]
    ELSE [r EXCEPT !.clamped = FALSE]

\* lines 139-143: the safety clamp
Clamp(r, clip) ==
    IF ~contains(clip, r.atlas.value)
    THEN Timer_reset([r EXCEPT !.atlas = Some(start(clip)), !.clamped = TRUE])
    ELSE [r EXCEPT !.clamped = FALSE]

\* lines 146-153
just_started_moving(r) == r.is_moving /\ ~r.was_moving
just_stopped_moving(r) == ~r.is_moving /\ r.was_moving
just_started_jumping(r) == r.is_jumping /\ ~r.was_jumping
just_stopped_jumping(r) == ~r.is_jumping /\ r.was_jumping

should_animate(r) == r.is_jumping \/ r.is_moving

animation_changed(r) ==
    \/ just_started_moving(r) \/ just_started_jumping(r)
    \/ just_stopped_moving(r) \/ just_stopped_jumping(r)

\* lines 155-159: reset animation
ResetBranch(r, clip, anim_def) ==
    Timer_reset(Timer_set_duration(
        [r EXCEPT !.atlas = Some(start(clip)), !.branch = "reset"],
        anim_def.frame_time))

\* faulty variant of AdvanceBranch: the frame advances without waiting for the timer
AdvanceEveryTick(r, clip, delta) ==
    [Timer_tick(r, delta) EXCEPT !.atlas = Some(next(clip, r.atlas.value)),
                                 !.branch = "advance"]

\* faulty variant of AdvanceBranch: the timer is reset after every tick
AdvanceResetsTimer(r, clip, delta) ==
    LET ticked == [Timer_reset(Timer_tick(r, delta)) EXCEPT !.branch = "advance"]
    IN  IF Timer_just_finished(r, delta)
        THEN [ticked EXCEPT !.atlas = Some(next(clip, r.atlas.value))]
        ELSE ticked

\* lines 160-165: advance animation
AdvanceBranch(r, clip, delta) ==
    LET ticked == [Timer_tick(r, delta) EXCEPT !.branch = "advance"]
    IN  IF Timer_just_finished(r, delta)
        THEN [ticked EXCEPT !.atlas = Some(next(clip, r.atlas.value))]
        ELSE ticked

\* faulty variant of IdleBranch: the idle branch also resets the timer
IdleResetsTimer(r, clip) ==
    Timer_reset([r EXCEPT !.atlas = Some(start(clip)), !.branch = "idle"])

\* lines 166-171: idle
IdleBranch(r, clip) ==
    IF r.atlas.value # start(clip)
    THEN [r EXCEPT !.atlas = Some(start(clip)), !.branch = "idle"]
    ELSE [r EXCEPT !.branch = "idle"]

\* faulty variant of AnimateBody: should_animate is tested before animation_changed
AdvanceBeforeReset(r, clip, anim_def, delta) ==
    LET c == Clamp(r, clip)
    IN  IF should_animate(c) THEN AdvanceBranch(c, clip, delta)
        ELSE IF animation_changed(c) THEN ResetBranch(c, clip, anim_def)
        ELSE IdleBranch(c, clip)

\* lines 139-171 for an entity whose clip and definition were found
AnimateBody(r, clip, anim_def, delta) ==
    LET c == Clamp(r, clip)
    IN  IF animation_changed(c) THEN ResetBranch(c, clip, anim_def)
        ELSE IF should_animate(c) THEN AdvanceBranch(c, clip, delta)
        ELSE IdleBranch(c, clip)

\* lines 131-137: the entity is skipped (`continue`)
Skipped(r) ==
    \/ ~r.atlas.some
    \/ ~get_clip(r, Config(r)).some
    \/ ~HasAnimation(Config(r), r.current_animation)

SkipEntity(r) == [r EXCEPT !.branch = "skip", !.clamped = FALSE]

\* the query of animate_characters matches the entities that hold all the components
Matches(r) == r.has

\* all orders in which a query can iterate the entities S
Orders(S) ==
    {o \in [1 .. Cardinality(S) -> S] : \A i, j \in DOMAIN o : o[i] = o[j] => i = j}

RECURSIVE AnimateLoop(_, _, _, _)

\* faulty variant of ContinueOnSkip: `return` in place of `continue`
ReturnOnSkip(world, e, rest, delta, overflow_checks) ==
    [world |-> [world EXCEPT ![e] = SkipEntity(world[e])], panicked |-> FALSE]

\* `continue`: go on with the remaining entities
ContinueOnSkip(world, e, rest, delta, overflow_checks) ==
    AnimateLoop([world EXCEPT ![e] = SkipEntity(world[e])], rest, delta, overflow_checks)

\* lines 129-172: the loop over the query, in iteration order `order`.
\* A panic in AnimationClip::new ends the system.
AnimateLoop(world, order, delta, overflow_checks) ==
    IF order = << >> THEN [world |-> world, panicked |-> FALSE]
    ELSE
        LET e == Head(order)
            r == world[e]
            rest == Tail(order)
        IN  IF ~Matches(r) THEN AnimateLoop(world, rest, delta, overflow_checks)
            ELSE IF ~r.atlas.some
            THEN ContinueOnSkip(world, e, rest, delta, overflow_checks)
            ELSE IF HasAnimation(Config(r), r.current_animation)
                    /\ get_clip(r, Config(r)).value.underflow /\ overflow_checks
            THEN [world |-> world, panicked |-> TRUE]
            ELSE IF Skipped(r)
            THEN ContinueOnSkip(world, e, rest, delta, overflow_checks)
            ELSE AnimateLoop(
                    [world EXCEPT ![e] =
                        AnimateBody(r, get_clip(r, Config(r)).value,
                                    Config(r).animations[r.current_animation], delta)],
                    rest, delta, overflow_checks)

----------------------------------------------------------------------------
(* The Update schedule.  CharactersPlugin::build adds the six systems as a  *)
(* plain tuple, without .chain() or before/after constraints, so the        *)
(* scheduler may run them in any order, each once per tick.  Commands are   *)
(* applied when the schedule has run.                                       *)

Run(system) ==
    /\ ~crashed
    /\ system \in pending
    /\ pending' = pending \ {system}
    /\ UNCHANGED <<call, monitor>>

\* initialize_player_character: queues the insert for a Player without
\* AnimationController
initialize_player_character ==
    /\ Run("initialize_player_character")
    /\ IF /\ ~ent[Player].has
          /\ loaded
          /\ character_index < NumCharacters
       THEN queued' = Some(character_index)
       ELSE UNCHANGED queued
    /\ UNCHANGED <<ent, loaded, characters, character_index, crashed>>

\* lines 127-166 of switch_character; key is the position in DIGIT_KEYS of the
\* key just pressed
SwitchTo(key) ==
    IF ~key.some \/ ~loaded \/ key.value >= NumCharacters
    THEN UNCHANGED <<character_index, ent>>
    ELSE /\ character_index' = key.value
         /\ IF ent[Player].has
            THEN ent' = [ent EXCEPT ![Player].entry = key.value,
                                    ![Player].atlas = Some(0)]
            ELSE UNCHANGED ent

\* switch_character
switch_character ==
    /\ Run("switch_character")
    /\ \E key \in {None} \cup {Some(k) : k \in 0 .. MaxKey} : SwitchTo(key)
    /\ UNCHANGED <<loaded, characters, queued, crashed>>

\* the motion vectors the input produces
MoveInputs == {[x |-> 0, y |-> 0], [x |-> 1, y |-> 0], [x |-> 0, y |-> -1]}

\* move_player: writes is_moving, and facing when the vector is not zero
move_player ==
    /\ Run("move_player")
    /\ IF ent[Player].has
       THEN \E v \in MoveInputs :
              ent' = [ent EXCEPT
                        ![Player].is_moving = (v.x # 0 \/ v.y # 0),
                        ![Player].moving_changed =
                            ((v.x # 0 \/ v.y # 0) # ent[Player].is_moving),
                        ![Player].facing = IF v.x # 0 \/ v.y # 0
                                           THEN from_direction(v)
                                           ELSE ent[Player].facing]
       ELSE UNCHANGED ent
    /\ UNCHANGED <<loaded, characters, character_index, queued, crashed>>

\* update_jump_state: writes is_jumping and the animation kind
update_jump_state ==
    /\ Run("update_jump_state")
    /\ IF ent[Player].has
       THEN \E j \in BOOLEAN, k \in AnimationTypes :
              ent' = [ent EXCEPT ![Player].is_jumping = j,
                                 ![Player].jumping_changed = (j # ent[Player].is_jumping),
                                 ![Player].current_animation = k]
       ELSE UNCHANGED ent
    /\ UNCHANGED <<loaded, characters, character_index, queued, crashed>>

\* faulty variant of animate_characters: one timer serves every entity (the
\* timer of the entity iterated first), in place of a timer per entity
AnimateWithSharedTimer ==
    /\ Run("animate_characters")
    /\ \E delta \in Deltas, order \in Orders(DOMAIN ent), overflow_checks \in BOOLEAN :
          LET res == AnimateLoop(ent, order, delta, overflow_checks)
          IN  /\ ent' = [e \in DOMAIN ent |->
                          IF Matches(ent[e])
                          THEN [res.world[e] EXCEPT !.elapsed = res.world[order[1]].elapsed]
                          ELSE res.world[e]]
              /\ crashed' = res.panicked
    /\ UNCHANGED <<loaded, characters, character_index, queued>>

\* animate_characters in a tick whose time.delta() is one of deltas
AnimateWithDeltas(deltas) ==
    /\ Run("animate_characters")
    /\ \E res \in {AnimateLoop(ent, order, delta, overflow_checks) :
                        delta \in deltas, order \in Orders(DOMAIN ent),
                        overflow_checks \in BOOLEAN} :
          /\ ent' = res.world
          /\ crashed' = res.panicked
    /\ UNCHANGED <<loaded, characters, character_index, queued>>

\* animate_characters
animate_characters == AnimateWithDeltas(Deltas)

\* faulty variant of Commit: the two flags are crossed
CommitSwapped(r) == [r EXCEPT !.was_moving = r.is_jumping, !.was_jumping = r.is_moving]

\* lines 178-179
Commit(r) == [r EXCEPT !.was_moving = r.is_moving, !.was_jumping = r.is_jumping]

\* update_animation_flags
update_animation_flags ==
    /\ Run("update_animation_flags")
    /\ ent' = [e \in DOMAIN ent |-> IF ent[e].has THEN Commit(ent[e]) ELSE ent[e]]
    /\ UNCHANGED <<loaded, characters, character_index, queued, crashed>>

\* The schedule has run: the queued commands are applied and the next tick
\* begins.  The asset may finish loading between two ticks.
ApplyDeferred(r) ==
    IF queued.some THEN InsertedBundle(r, queued.value) ELSE r

EndOfUpdate ==
    /\ ~crashed
    /\ pending = {}
    /\ pending' = Systems
    /\ ent' = [e \in DOMAIN ent |->
                 LET r == [ent[e] EXCEPT !.branch = "none", !.clamped = FALSE,
                                         !.moving_changed = FALSE,
                                         !.jumping_changed = FALSE,
                                         !.just_inserted = FALSE]
                 IN  IF e = Player THEN ApplyDeferred(r) ELSE r]
    /\ queued' = None
    /\ loaded' \in {loaded, TRUE}
    /\ UNCHANGED <<characters, character_index, crashed, call, monitor>>

----------------------------------------------------------------------------
(* Specifications *)

\* after Startup (spawn_player): the player is spawned, the list is loading
InitWith(list) ==
    /\ ent = [e \in {Player} |-> PlayerSpawned]
    /\ pending = Systems
    /\ loaded = FALSE
    /\ characters = list
    /\ character_index = 0
    /\ queued = None
    /\ crashed = FALSE
    /\ call = NoCall
    /\ monitor = PerformanceMonitor_default

Init == InitWith(ValidCharacters)

Next ==
    \/ initialize_player_character
    \/ switch_character
    \/ move_player
    \/ update_jump_state
    \/ animate_characters
    \/ update_animation_flags
    \/ EndOfUpdate

Spec == Init /\ [][Next]_vars

\* the same program with a catalogue that holds zero-frame definitions
InitZeroFrames == InitWith(ZeroFrameCharacters)

SpecZeroFrames == InitZeroFrames /\ [][Next]_vars

\* animate_characters and update_animation_flags over a world of two animated
\* entities, drawn from the states such entities can be in
PairEntities == {1, 2}

PairInputs ==
    {[PlayerSpawned EXCEPT !.has = TRUE, !.current_animation = k,
                           !.is_moving = m, !.was_moving = w,
                           !.duration = 2, !.elapsed = el,
                           !.atlas = a, !.entry = c] :
        k \in AnimationTypes, m \in BOOLEAN, w \in BOOLEAN, el \in {0, 1},
        a \in {None, Some(0), Some(13)}, c \in {0, 1}}

InitPair ==
    /\ ent \in [PairEntities -> PairInputs]
    /\ pending = {"animate_characters", "update_animation_flags"}
    /\ loaded = TRUE
    /\ characters = ValidCharacters
    /\ character_index = 0
    /\ queued = None
    /\ crashed = FALSE
    /\ call = NoCall
    /\ monitor = PerformanceMonitor_default

NextPair ==
    \/ animate_characters
    \/ update_animation_flags

SpecPair == InitPair /\ [][NextPair]_vars

\* The steady state of an animating entity: the movement systems keep writing
\* the same flags, kind and facing, nobody switches the character, and every
\* tick has a positive delta-time.  Only animate_characters and
\* update_animation_flags change anything; the scheduler runs every tick.
\* The entity starts from any state it can be in when the steady state begins.
SteadyInputs ==
    {r \in {[PlayerSpawned EXCEPT !.has = TRUE, !.current_animation = k, !.facing = f,
                                  !.is_moving = m, !.was_moving = m,
                                  !.is_jumping = j, !.was_jumping = j,
                                  !.duration = du, !.elapsed = el,
                                  !.atlas = Some(i), !.entry = c] :
                k \in AnimationTypes, f \in FacingValues, m \in BOOLEAN, j \in BOOLEAN,
                du \in 1 .. MaxDelta, el \in 0 .. MaxDelta - 1, i \in Indices,
                c \in 0 .. Len(ValidCharacters) - 1} :
        /\ r.is_moving \/ r.is_jumping
        /\ r.elapsed < r.duration
        /\ HasAnimation(ValidCharacters[r.entry + 1], r.current_animation)
        \* a frame of the clip, or the index 0 the sprite gets at insert and switch
        /\ \/ r.atlas.value = 0
           \/ contains(get_clip(r, ValidCharacters[r.entry + 1]).value, r.atlas.value)}

InitSteady ==
    /\ ent \in [{Player} -> SteadyInputs]
    /\ pending = {"animate_characters", "update_animation_flags"}
    /\ loaded = TRUE
    /\ characters = ValidCharacters
    /\ character_index = ent[Player].entry
    /\ queued = None
    /\ crashed = FALSE
    /\ call = NoCall
    /\ monitor = PerformanceMonitor_default

\* animate_characters with time.delta() > 0
animate_characters_positive_delta == AnimateWithDeltas(Deltas \ {0})

\* the two systems have run: the next tick begins
EndOfSteadyUpdate ==
    /\ ~crashed
    /\ pending = {}
    /\ pending' = {"animate_characters", "update_animation_flags"}
    /\ ent' = [e \in DOMAIN ent |->
                 [ent[e] EXCEPT !.branch = "none", !.clamped = FALSE]]
    /\ UNCHANGED <<loaded, characters, character_index, queued, crashed, call, monitor>>

NextSteady ==
    \/ animate_characters_positive_delta
    \/ update_animation_flags
    \/ EndOfSteadyUpdate

SpecSteady == InitSteady /\ [][NextSteady]_vars /\ WF_vars(NextSteady)

----------------------------------------------------------------------------
(* PerformanceMonitor (performance/mod.rs), a resource of its own updated    *)
(* once per frame by monitor_performance.  The delta-time of the n-th call   *)
(* is written n: update stores the values without reading them, so distinct  *)
(* values lose nothing and show which arrivals are kept.  secs is            *)
(* now.duration_since(last_fps_time).as_secs(); the logged statistics are    *)
(* output only.                                                              *)

\* Vec::remove(0)
RemoveFirst(v) == SubSeq(v, 2, Len(v))

\* faulty variant of TrimFrameTimes: the newest entry is dropped (Vec::pop)
TrimDropsNewest(frame_times, max_frame_times) ==
    IF Len(frame_times) > max_frame_times
    THEN SubSeq(frame_times, 1, Len(frame_times) - 1)
    ELSE frame_times

\* lines 34-36: keep only the last N frame times
TrimFrameTimes(frame_times, max_frame_times) ==
    IF Len(frame_times) > max_frame_times
    THEN RemoveFirst(frame_times)
    ELSE frame_times

\* PerformanceMonitor::update
PerformanceMonitor_update(self, delta_time, secs) ==
    LET counted == [self EXCEPT !.frame_count = self.frame_count + 1,
                                !.frame_times =
                                    TrimFrameTimes(Append(self.frame_times, delta_time),
                                                   self.max_frame_times),
                                !.arrivals = self.arrivals + 1]
    IN  IF secs >= 1
        THEN [counted EXCEPT !.fps = counted.frame_count \div secs, !.frame_count = 0]
        ELSE counted

\* monitor_performance
monitor_performance ==
    /\ monitor.arrivals < MaxUpdates
    /\ \E secs \in 0 .. MaxSecs :
          monitor' = PerformanceMonitor_update(monitor, monitor.arrivals + 1, secs)
    /\ UNCHANGED <<ent, pending, loaded, characters, character_index, queued, crashed,
                   call>>

InitMonitor ==
    /\ monitor = PerformanceMonitor_default
    /\ ent = [e \in {Player} |-> PlayerSpawned]
    /\ pending = {}
    /\ loaded = FALSE
    /\ characters = ValidCharacters
    /\ character_index = 0
    /\ queued = None
    /\ crashed = FALSE
    /\ call = NoCall

NextMonitor == monitor_performance

SpecMonitor == InitMonitor /\ [][NextMonitor]_vars

----------------------------------------------------------------------------
(* Calls of the pure functions.  The arguments of a call are drawn when the  *)
(* behaviour starts; the action of the function computes its result.  The    *)
(* rest of the state takes no part.                                          *)

CallInit(inputs) ==
    /\ call \in inputs
    /\ ent = [e \in {Player} |-> PlayerSpawned]
    /\ pending = {}
    /\ loaded = FALSE
    /\ characters = ValidCharacters
    /\ character_index = 0
    /\ queued = None
    /\ crashed = FALSE
    /\ monitor = PerformanceMonitor_default

Calling(fn) == call.fn = fn /\ ~call.done /\ ~crashed

\* the call returns v
Return(v) == call' = [call EXCEPT !.done = TRUE, !.ret = v]

Called(fn) == call.fn = fn /\ call.done

\* motion vectors (Vec2), on the integer grid
Directions == {[x |-> x, y |-> y] : x \in -MaxCoord .. MaxCoord, y \in -MaxCoord .. MaxCoord}

FacingInputs ==
    {[fn |-> "from_direction", done |-> FALSE, ret |-> << >>, direction |-> v] :
        v \in Directions}
    \cup {[fn |-> "direction_index", done |-> FALSE, ret |-> << >>, facing |-> f] :
        f \in FacingValues}

Call_from_direction ==
    /\ Calling("from_direction")
    /\ Return(from_direction(call.direction))
    /\ UNCHANGED <<ent, pending, loaded, characters, character_index, queued, crashed,
                   monitor>>

Call_direction_index ==
    /\ Calling("direction_index")
    /\ Return(direction_index(call.facing))
    /\ UNCHANGED <<ent, pending, loaded, characters, character_index, queued, crashed,
                   monitor>>

InitFacing == CallInit(FacingInputs)

NextFacing ==
    \/ Call_from_direction
    \/ Call_direction_index

SpecFacing == InitFacing /\ [][NextFacing]_vars

\* the arguments of AnimationClip::new
ClipArgs ==
    [row : 0 .. MaxStartRow + 3, frame_count : 0 .. MaxFrames,
     atlas_columns : 1 .. MaxColumns]

ClipInputs ==
    {c \in [fn : {"new", "contains", "next", "is_complete", "next_cycle"},
            done : {FALSE}, ret : {<< >>}, clip : ClipArgs, index : Indices,
            timer_finished : BOOLEAN] :
        \* an argument the method does not take is left at its zero value
        /\ c.fn = "new" => c.index = 0
        /\ c.fn # "is_complete" => ~c.timer_finished
        /\ c.fn = "next_cycle" => c.clip.frame_count >= 1}

\* the clip the call works on, built by AnimationClip::new from the arguments
ClipOf(c) == AnimationClip_new(c.row, c.frame_count, c.atlas_columns)

\* the subtraction in AnimationClip::new panics when overflow checks are on;
\* otherwise the method runs on the clip and returns v
OnClip(v) ==
    /\ \E overflow_checks \in BOOLEAN :
          IF ClipOf(call.clip).underflow /\ overflow_checks
          THEN crashed' = TRUE /\ UNCHANGED call
          ELSE Return(v) /\ UNCHANGED crashed
    /\ UNCHANGED <<ent, pending, loaded, characters, character_index, queued, monitor>>

Call_new ==
    /\ Calling("new")
    /\ OnClip(ClipOf(call.clip))

Call_contains ==
    /\ Calling("contains")
    /\ OnClip(contains(ClipOf(call.clip), call.index))

Call_next ==
    /\ Calling("next")
    /\ OnClip(next(ClipOf(call.clip), call.index))

Call_is_complete ==
    /\ Calling("is_complete")
    /\ OnClip(is_complete(ClipOf(call.clip), call.index, call.timer_finished))

\* next applied again to its own result, frame_count times from call.index;
\* ret collects the results
Call_next_again ==
    /\ Calling("next_cycle")
    /\ LET current == IF call.ret = << >> THEN call.index ELSE call.ret[Len(call.ret)]
           visited == Append(call.ret, next(ClipOf(call.clip), current))
       IN  call' = [call EXCEPT !.ret = visited,
                                !.done = (Len(visited) = call.clip.frame_count)]
    /\ UNCHANGED <<ent, pending, loaded, characters, character_index, queued, crashed,
                   monitor>>

InitClip == CallInit(ClipInputs)

NextClip ==
    \/ Call_new
    \/ Call_contains
    \/ Call_next
    \/ Call_is_complete
    \/ Call_next_again

SpecClip == InitClip /\ [][NextClip]_vars

\* animation definitions with frame_count >= 1, and the configs made of them:
\* any subset of the animation kinds may be present
Definitions ==
    [start_row : 0 .. MaxStartRow, frame_count : 1 .. MaxFrames,
     frame_time : {DEFAULT_ANIMATION_FRAME_TIME}, directional : BOOLEAN]

Configs ==
    [atlas_columns : 1 .. MaxColumns,
     animations : UNION {[kinds -> Definitions] : kinds \in SUBSET AnimationTypes}]

Controllers == [current_animation : AnimationTypes, facing : FacingValues]

ResolveInputs ==
    {[fn |-> "get_clip", done |-> FALSE, ret |-> << >>, controller |-> c, config |-> g] :
        c \in Controllers, g \in Configs}

Call_get_clip ==
    /\ Calling("get_clip")
    /\ Return(get_clip(call.controller, call.config))
    /\ UNCHANGED <<ent, pending, loaded, characters, character_index, queued, crashed,
                   monitor>>

InitResolve == CallInit(ResolveInputs)

NextResolve == Call_get_clip

SpecResolve == InitResolve /\ [][NextResolve]_vars

----------------------------------------------------------------------------
(* Properties *)

AnimateStep ==
    "animate_characters" \in pending /\ "animate_characters" \notin pending'

CommitStep ==
    "update_animation_flags" \in pending /\ "update_animation_flags" \notin pending'

\* the entity is updated by animate_characters in this state (not skipped)
Updated(e) ==
    /\ ent[e].has
    /\ ent[e].atlas.some
    /\ ent[e].current_animation \in DOMAIN Config(ent[e]).animations

Clip(e) == get_clip(ent[e], Config(ent[e])).value

Def(e) == Config(ent[e]).animations[ent[e].current_animation]

InClip(e) == Clip(e).first <= ent[e].atlas.value /\ ent[e].atlas.value <= Clip(e).last

AnyTransition(e) ==
    ent[e].is_moving # ent[e].was_moving \/ ent[e].is_jumping # ent[e].was_jumping

Animating(e) == ent[e].is_moving \/ ent[e].is_jumping

\* the elapsed accumulator of a repeating timer after a tick of d from el
Ticked(el, dur, d) == IF el + d >= dur THEN (el + d) % dur ELSE el + d

\* C1: after every call of animate_characters that does not skip the entity, the
\* frame index lies in [first, last] of the clip resolved for that tick, whatever
\* the prior frame index and the four motion flags were.
C1_FrameInClip ==
    [][AnimateStep /\ ~crashed' =>
         \A e \in DOMAIN ent :
            Updated(e) =>
                /\ ent'[e].atlas.some
                /\ Clip(e).first <= ent'[e].atlas.value
                /\ ent'[e].atlas.value <= Clip(e).last]_vars

\* C1 witness: the update found the frame index out of range (after a facing
\* change) and left it inside the Walk/Right clip [18,21]
C1_Witness ==
    /\ ent[Player].branch = "advance"
    /\ ent[Player].clamped
    /\ ent[Player].entry = 0
    /\ ent[Player].current_animation = "Walk"
    /\ ent[Player].facing = "Right"
    /\ ent[Player].atlas.value \in 18 .. 21
    /\ "move_player" \notin pending

\* C2: in every tick update_animation_flags runs after animate_characters, so
\* when animate_characters starts, the commit of this tick has not run and
\* was_moving / was_jumping hold the values is_moving / is_jumping had when the
\* previous tick ended.
C2_CommitAfterAnimate ==
    [][AnimateStep =>
         \A e \in DOMAIN ent :
            ent[e].has =>
              /\ "update_animation_flags" \in pending
              /\ ent[e].was_moving = (ent[e].is_moving # ent[e].moving_changed)
              /\ ent[e].was_jumping = (ent[e].is_jumping # ent[e].jumping_changed)]_vars

\* C3: a tick runs the reset branch exactly when is_moving or is_jumping differs
\* from its value at the end of the previous tick: no change is missed and no
\* reset fires without a change.
C3_ResetIffChange ==
    (pending = {} /\ ~crashed) =>
        \A e \in DOMAIN ent :
            ent[e].branch \in {"reset", "advance", "idle"} =>
                ((ent[e].branch = "reset")
                    <=> (ent[e].moving_changed \/ ent[e].jumping_changed))

\* C4: on a tick with a transition the update sets the frame index to the clip's
\* first frame, the timer's duration to the kind's frame_time and the elapsed
\* accumulator to zero; nothing is advanced, also when several transitions
\* coincide.
C4_TransitionResets ==
    [][AnimateStep /\ ~crashed' =>
         \A e \in DOMAIN ent :
            Updated(e) /\ AnyTransition(e) =>
                /\ ent'[e].atlas = Some(Clip(e).first)
                /\ ent'[e].duration = Def(e).frame_time
                /\ ent'[e].elapsed = 0]_vars

\* C4 witness: started_moving and started_jumping in the same tick, the reset has
\* run (the commit has not) and left frame 24 of Jump with its frame_time
C4_Witness ==
    /\ ent[Player].branch = "reset"
    /\ ent[Player].is_moving /\ ~ent[Player].was_moving
    /\ ent[Player].is_jumping /\ ~ent[Player].was_jumping
    /\ ent[Player].entry = 0
    /\ ent[Player].current_animation = "Jump"
    /\ ent[Player].atlas = Some(24)
    /\ ent[Player].duration = 1
    /\ ent[Player].elapsed = 0
    /\ pending = {}

\* the frame index and the elapsed accumulator the branches of the update start
\* from: the entity's own when the frame index is inside the clip, the clip's
\* first frame and zero when the safety clamp acted
ClampedIndex(e) == IF InClip(e) THEN ent[e].atlas.value ELSE Clip(e).first

ClampedElapsed(e) == IF InClip(e) THEN ent[e].elapsed ELSE 0

\* one step forward in the clip, from the last frame back to the first
Advance(e, idx) == IF idx >= Clip(e).last THEN Clip(e).first ELSE idx + 1

\* C5 as stated: on a tick without transition and with is_moving or is_jumping,
\* the update advances the timer by the delta-time and the frame index becomes
\* advance(old frame index) if the timer elapses and is unchanged otherwise.
C5_AsStated ==
    [][AnimateStep /\ ~crashed' =>
         \A e \in DOMAIN ent :
            Updated(e) /\ ~AnyTransition(e) /\ Animating(e) =>
                \E d \in Deltas :
                    /\ ent'[e].duration = ent[e].duration
                    /\ ent'[e].elapsed = Ticked(ent[e].elapsed, ent[e].duration, d)
                    /\ ent'[e].atlas.value =
                         IF ent[e].elapsed + d >= ent[e].duration
                         THEN Advance(e, ent[e].atlas.value)
                         ELSE ent[e].atlas.value]_vars

\* C5 amended: the same, counted from the frame index and the elapsed accumulator
\* the safety clamp leaves (the entity's own when the frame index is inside the
\* clip, the first frame and zero otherwise).
C5_AdvanceFromClamped ==
    [][AnimateStep /\ ~crashed' =>
         \A e \in DOMAIN ent :
            Updated(e) /\ ~AnyTransition(e) /\ Animating(e) =>
                \E d \in Deltas :
                    /\ ent'[e].duration = ent[e].duration
                    /\ ent'[e].elapsed = Ticked(ClampedElapsed(e), ent[e].duration, d)
                    /\ ent'[e].atlas.value =
                         IF ClampedElapsed(e) + d >= ent[e].duration
                         THEN Advance(e, ClampedIndex(e))
                         ELSE ClampedIndex(e)]_vars

\* C5 witness: steady walking facing Down, the frame index was in range and the
\* advance branch has left it on frame 15 of [12,15]
C5_Witness ==
    /\ ent[Player].branch = "advance"
    /\ ~ent[Player].clamped
    /\ ent[Player].is_moving /\ ent[Player].was_moving
    /\ ~ent[Player].is_jumping /\ ~ent[Player].was_jumping
    /\ ent[Player].entry = 0
    /\ ent[Player].current_animation = "Walk"
    /\ ent[Player].facing = "Down"
    /\ ent[Player].atlas = Some(15)

\* C6 as stated: an update with is_moving = is_jumping = false and no transition
\* leaves the frame index on the clip's first frame and changes neither the
\* timer's duration nor its elapsed accumulator.
C6_AsStated ==
    [][AnimateStep /\ ~crashed' =>
         \A e \in DOMAIN ent :
            Updated(e) /\ ~AnyTransition(e) /\ ~Animating(e) =>
                /\ ent'[e].atlas = Some(Clip(e).first)
                /\ ent'[e].duration = ent[e].duration
                /\ ent'[e].elapsed = ent[e].elapsed]_vars

\* C6 amended: such an update leaves the frame index on the clip's first frame
\* and the duration unchanged; the elapsed accumulator is unchanged when the frame
\* index was inside the clip and is zeroed by the safety clamp when it was not.
C6_IdlePinned ==
    [][AnimateStep /\ ~crashed' =>
         \A e \in DOMAIN ent :
            Updated(e) /\ ~AnyTransition(e) /\ ~Animating(e) =>
                /\ ent'[e].atlas = Some(Clip(e).first)
                /\ ent'[e].duration = ent[e].duration
                /\ ent'[e].elapsed = ClampedElapsed(e)]_vars

\* C6 witness: an idle update without transition has run on an entity whose timer
\* holds a nonzero elapsed accumulator and left the frame on the first frame
C6_Witness ==
    /\ ent[Player].branch = "idle"
    /\ ~ent[Player].clamped
    /\ ~ent[Player].is_moving /\ ~ent[Player].was_moving
    /\ ~ent[Player].is_jumping /\ ~ent[Player].was_jumping
    /\ ent[Player].entry = 0
    /\ ent[Player].current_animation = "Walk"
    /\ ent[Player].facing = "Down"
    /\ ent[Player].atlas = Some(12)
    /\ ent[Player].elapsed = 1

\* C7 as stated: when the frame index is outside the clip at the start of the
\* update, the update leaves the frame index on the clip's first frame, the
\* elapsed accumulator at zero and the duration unchanged, whichever branch runs.
C7_AsStated ==
    [][AnimateStep /\ ~crashed' =>
         \A e \in DOMAIN ent :
            Updated(e) /\ ~InClip(e) =>
                /\ ent'[e].atlas = Some(Clip(e).first)
                /\ ent'[e].elapsed = 0
                /\ ent'[e].duration = ent[e].duration]_vars

\* C7 amended: when the frame index is outside the clip at the start of the
\* update, the branch that runs starts from the clip's first frame and a zero
\* elapsed accumulator: the transition branch leaves (first, frame_time, 0), the
\* idle branch (first, duration unchanged, 0), and the animating branch ticks the
\* timer from zero, duration unchanged, and leaves the first frame, or the frame
\* after it when the delta-time reaches the duration.
C7_ClampThenBranch ==
    [][AnimateStep /\ ~crashed' =>
         \A e \in DOMAIN ent :
            Updated(e) /\ ~InClip(e) =>
                IF AnyTransition(e)
                THEN /\ ent'[e].atlas = Some(Clip(e).first)
                     /\ ent'[e].elapsed = 0
                     /\ ent'[e].duration = Def(e).frame_time
                ELSE IF Animating(e)
                THEN \E d \in Deltas :
                        /\ ent'[e].duration = ent[e].duration
                        /\ ent'[e].elapsed = Ticked(0, ent[e].duration, d)
                        /\ ent'[e].atlas.value =
                             IF d >= ent[e].duration
                             THEN Advance(e, Clip(e).first)
                             ELSE Clip(e).first
                ELSE /\ ent'[e].atlas = Some(Clip(e).first)
                     /\ ent'[e].elapsed = 0
                     /\ ent'[e].duration = ent[e].duration]_vars

\* C7 witness: facing changed from Down to Right while walking with no
\* transition; the clamp acted and the update left frame 18 of [18,21] with the
\* elapsed accumulator at zero
C7_Witness ==
    /\ ent[Player].branch = "advance"
    /\ ent[Player].clamped
    /\ ent[Player].is_moving /\ ent[Player].was_moving
    /\ ~ent[Player].is_jumping /\ ~ent[Player].was_jumping
    /\ ent[Player].entry = 0
    /\ ent[Player].current_animation = "Walk"
    /\ ent[Player].facing = "Right"
    /\ ent[Player].atlas = Some(18)
    /\ ent[Player].duration = 2
    /\ ent[Player].elapsed = 0

\* the skip conditions of C8: no atlas on the sprite, or the animation kind
\* absent from the config
Unready(e) ==
    /\ ent[e].has
    /\ \/ ~ent[e].atlas.some
       \/ ent[e].current_animation \notin DOMAIN Config(ent[e]).animations

\* C8: an entity without atlas handle, or whose animation kind is absent from
\* its config, is skipped: frame index, timer duration and elapsed accumulator
\* are unchanged and nothing panics; the other entities are updated in the same
\* call (one in a transition is reset).
C8_SkipLeavesEntity ==
    [][AnimateStep =>
         /\ ~crashed'
         /\ \A e \in DOMAIN ent :
               Unready(e) =>
                  /\ ent'[e].atlas = ent[e].atlas
                  /\ ent'[e].duration = ent[e].duration
                  /\ ent'[e].elapsed = ent[e].elapsed
         /\ \A e \in DOMAIN ent :
               Updated(e) /\ AnyTransition(e) =>
                  /\ ent'[e].atlas = Some(Clip(e).first)
                  /\ ent'[e].duration = Def(e).frame_time
                  /\ ent'[e].elapsed = 0]_vars

\* C8 witness: in one call entity 1 (no atlas) was skipped with its timer intact
\* and entity 2, in a transition, was reset to frame 12
C8_Witness ==
    /\ DOMAIN ent = PairEntities
    /\ ent[1].branch = "skip" /\ ~ent[1].atlas.some /\ ent[1].elapsed = 1
    /\ ent[2].branch = "reset" /\ ent[2].atlas = Some(12) /\ ent[2].elapsed = 0

\* C9: an entity whose current animation definition has frame_count = 0 is
\* skipped: the clip computation neither panics nor underflows, and the entity's
\* frame index and timer are unchanged.
C9_ZeroFramesSkipped ==
    [][AnimateStep =>
         /\ ~crashed'
         /\ \A e \in DOMAIN ent :
               (Updated(e) /\ Def(e).frame_count = 0) =>
                  /\ ~Clip(e).underflow
                  /\ ent'[e].atlas = ent[e].atlas
                  /\ ent'[e].duration = ent[e].duration
                  /\ ent'[e].elapsed = ent[e].elapsed]_vars

\* C10: animate_characters leaves the four flags, current_animation and facing
\* unchanged; was_moving / was_jumping of an entity change only in
\* update_animation_flags, which sets was_moving := is_moving and
\* was_jumping := is_jumping and leaves is_moving / is_jumping; it runs once per
\* tick (a tick ends only after it ran, and it runs only if it has not yet).
C10_FlagsWrittenByCommit ==
    [][/\ AnimateStep /\ ~crashed' =>
            \A e \in DOMAIN ent :
               /\ ent'[e].is_moving = ent[e].is_moving
               /\ ent'[e].was_moving = ent[e].was_moving
               /\ ent'[e].is_jumping = ent[e].is_jumping
               /\ ent'[e].was_jumping = ent[e].was_jumping
               /\ ent'[e].current_animation = ent[e].current_animation
               /\ ent'[e].facing = ent[e].facing
       /\ \A e \in DOMAIN ent :
            (/\ ent[e].has /\ ent'[e].has
             /\ \/ ent'[e].was_moving # ent[e].was_moving
                \/ ent'[e].was_jumping # ent[e].was_jumping) => CommitStep
       /\ CommitStep =>
            \A e \in DOMAIN ent :
               ent[e].has =>
                  /\ ent'[e].was_moving = ent[e].is_moving
                  /\ ent'[e].was_jumping = ent[e].is_jumping
                  /\ ent'[e].is_moving = ent[e].is_moving
                  /\ ent'[e].is_jumping = ent[e].is_jumping
       /\ (pending' = Systems /\ pending # Systems) =>
            "update_animation_flags" \notin pending]_vars

\* C10 witness: the commit has run after a start of moving and of jumping: the
\* was_* flags hold the is_* values, which are still set
C10_Witness ==
    /\ "update_animation_flags" \notin pending
    /\ "move_player" \notin pending
    /\ "update_jump_state" \notin pending
    /\ ent[Player].moving_changed /\ ent[Player].jumping_changed
    /\ ent[Player].is_moving /\ ent[Player].was_moving
    /\ ent[Player].is_jumping /\ ent[Player].was_jumping

\* C11: for every motion vector whose x component dominates (|x| > |y|),
\* from_direction returns Right when x > 0 and Left otherwise.  x dominating
\* with x > 0 is x > y and x > -y; with x < 0 it is -x > y and -x > -y.
C11_HorizontalFacing ==
    Called("from_direction") =>
        LET x == call.direction.x
            y == call.direction.y
        IN  /\ (x > y /\ x > -y) => call.ret = "Right"
            /\ (-x > y /\ -x > -y) => call.ret = "Left"

\* C11 witness: the vector (-3, 2) was resolved to Left
C11_Witness ==
    /\ Called("from_direction")
    /\ call.direction = [x |-> -3, y |-> 2]
    /\ call.ret = "Left"

\* C12: for every motion vector with |x| <= |y|, ties and the zero vector
\* included, from_direction returns Up when y > 0 and Down otherwise; the zero
\* vector gives Down, and a tie with y < 0 gives Down whatever the sign of x.
C12_VerticalFacing ==
    Called("from_direction") =>
        LET x == call.direction.x
            y == call.direction.y
        IN  /\ (y > 0 /\ x <= y /\ -x <= y) => call.ret = "Up"
            /\ (y <= 0 /\ x <= -y /\ -x <= -y) => call.ret = "Down"
            /\ (x = 0 /\ y = 0) => call.ret = "Down"
            /\ (y < 0 /\ (x = y \/ x = -y)) => call.ret = "Down"

\* C12 witness: the tie (2, -2) was resolved to Down
C12_Witness ==
    /\ Called("from_direction")
    /\ call.direction = [x |-> 2, y |-> -2]
    /\ call.ret = "Down"

\* C16: direction_index maps Up to 0, Left to 1, Down to 2, Right to 3; the four
\* facings get four distinct offsets, which are exactly 0, 1, 2, 3.
C16_RowOffsetTable ==
    Called("direction_index") =>
        /\ call.ret = [Up |-> 0, Left |-> 1, Down |-> 2, Right |-> 3][call.facing]
        /\ \A f \in FacingValues \ {call.facing} : direction_index(f) # call.ret
        /\ {direction_index(f) : f \in FacingValues} = 0 .. 3

\* C16 witness: the offset of Down was computed and is 2
C16_Witness ==
    /\ Called("direction_index")
    /\ call.facing = "Down"
    /\ call.ret = 2

\* C13: for frame_count >= 1 and atlas_columns >= 1 the clip built by
\* AnimationClip::new has first = row * atlas_columns,
\* last = first + frame_count - 1 and first <= last, and contains(idx) is true
\* for exactly the frame_count consecutive integers starting at
\* row * atlas_columns.
C13_ClipRange ==
    LET c == call.clip
    IN  /\ (Called("new") /\ c.frame_count >= 1 /\ c.atlas_columns >= 1) =>
              /\ call.ret.first = c.row * c.atlas_columns
              /\ call.ret.last = c.row * c.atlas_columns + c.frame_count - 1
              /\ call.ret.first <= call.ret.last
        /\ (Called("contains") /\ c.frame_count >= 1 /\ c.atlas_columns >= 1) =>
              (call.ret <=>
                 call.index \in {c.row * c.atlas_columns + k : k \in 0 .. c.frame_count - 1})

\* C13 witness: row 2 of a 6-column atlas with 4 frames: contains(15) is true
C13_Witness ==
    /\ Called("contains")
    /\ call.clip = [row |-> 2, frame_count |-> 4, atlas_columns |-> 6]
    /\ call.index = 15
    /\ call.ret = TRUE

\* C14: for every clip next(last) = first, and next(idx) = idx + 1 for every idx
\* with first <= idx < last: the clip loops, no frame is skipped and the result
\* never lies beyond last.
C14_NextLoops ==
    Called("next") =>
        LET clip == ClipOf(call.clip)
        IN  /\ call.index = clip.last => call.ret = clip.first
            /\ (clip.first <= call.index /\ call.index < clip.last) =>
                   call.ret = call.index + 1
            /\ (clip.first <= call.index /\ call.index <= clip.last) =>
                   call.ret <= clip.last

\* C14 witness: in the clip [12,15] next(15) is 12
C14_Witness ==
    /\ Called("next")
    /\ call.clip = [row |-> 2, frame_count |-> 4, atlas_columns |-> 6]
    /\ call.index = 15
    /\ call.ret = 12

\* C18: is_complete(idx, timer_finished) is true if and only if idx >= last and
\* timer_finished; it is false on the last frame while the timer has not
\* finished, and false on an earlier frame even when the timer has finished.
C18_CompleteIffLastAndFinished ==
    Called("is_complete") =>
        LET clip == ClipOf(call.clip)
        IN  /\ call.ret <=> (call.index >= clip.last /\ call.timer_finished)
            /\ (call.index = clip.last /\ ~call.timer_finished) => ~call.ret
            /\ (call.index < clip.last /\ call.timer_finished) => ~call.ret

\* C18 witness: on the last frame 15 of [12,15] with the timer not finished,
\* is_complete is false
C18_Witness ==
    /\ Called("is_complete")
    /\ call.clip = [row |-> 2, frame_count |-> 4, atlas_columns |-> 6]
    /\ call.index = 15
    /\ ~call.timer_finished
    /\ call.ret = FALSE

\* the row offsets of the atlas layout: Up, Left, Down, Right from start_row
RowOffset == [Up |-> 0, Left |-> 1, Down |-> 2, Right |-> 3]

\* the row of the atlas the call of get_clip is to resolve
ResolvedRow ==
    LET def == call.config.animations[call.controller.current_animation]
    IN  IF def.directional
        THEN def.start_row + RowOffset[call.controller.facing]
        ELSE def.start_row

\* C15: get_clip returns no clip when the controller's animation kind is absent
\* from the config; otherwise the clip of row start_row + row_offset(facing) for
\* a directional definition and of row start_row, whatever the facing, for a
\* non-directional one, with the definition's frame_count and the config's
\* atlas_columns.
C15_ResolveClip ==
    Called("get_clip") =>
        IF call.controller.current_animation \notin DOMAIN call.config.animations
        THEN ~call.ret.some
        ELSE LET def == call.config.animations[call.controller.current_animation]
                 cols == call.config.atlas_columns
             IN  /\ call.ret.some
                 /\ call.ret.value.first = ResolvedRow * cols
                 /\ call.ret.value.last = ResolvedRow * cols + def.frame_count - 1

\* C15 witness: a non-directional Jump in row 1 of a 6-column atlas, 2 frames,
\* resolved for facing Right: the clip is [6,7]
C15_Witness ==
    /\ Called("get_clip")
    /\ call.controller = [current_animation |-> "Jump", facing |-> "Right"]
    /\ call.config.atlas_columns = 6
    /\ "Jump" \in DOMAIN call.config.animations
    /\ call.config.animations["Jump"].start_row = 1
    /\ call.config.animations["Jump"].frame_count = 2
    /\ ~call.config.animations["Jump"].directional
    /\ call.ret.some
    /\ call.ret.value.first = 6 /\ call.ret.value.last = 7

\* C17: when frame_count <= atlas_columns the clip stays inside the block of its
\* row, [row * atlas_columns, (row + 1) * atlas_columns - 1], so the clips of the
\* four facings of a directional animation are pairwise disjoint: no frame index
\* belongs to the clips of two facings.
C17_ClipsInRowBlocks ==
    (/\ Called("get_clip")
     /\ call.controller.current_animation \in DOMAIN call.config.animations
     /\ call.config.animations[call.controller.current_animation].frame_count
            <= call.config.atlas_columns) =>
        LET def == call.config.animations[call.controller.current_animation]
            cols == call.config.atlas_columns
            clip == call.ret.value
        IN  /\ ResolvedRow * cols <= clip.first
            /\ clip.first <= clip.last
            /\ clip.last <= (ResolvedRow + 1) * cols - 1
            /\ def.directional =>
                  \A facing \in FacingValues \ {call.controller.facing} :
                     LET other == get_clip([call.controller EXCEPT !.facing = facing],
                                           call.config).value
                     IN  \A index \in Indices :
                            ~(contains(clip, index) /\ contains(other, index))

\* C17 witness: a directional Walk that fills its rows (4 frames, 4 columns),
\* resolved for facing Left: the clip is [4,7], the whole of row 1
C17_Witness ==
    /\ Called("get_clip")
    /\ call.controller = [current_animation |-> "Walk", facing |-> "Left"]
    /\ call.config.atlas_columns = 4
    /\ "Walk" \in DOMAIN call.config.animations
    /\ call.config.animations["Walk"].start_row = 0
    /\ call.config.animations["Walk"].frame_count = 4
    /\ call.config.animations["Walk"].directional
    /\ call.ret.some
    /\ call.ret.value.first = 4 /\ call.ret.value.last = 7

\* entity e after a call of animate_characters, with delta-time delta, in a
\* world that holds no other entity
UpdatedAlone(e, delta) ==
    AnimateLoop([x \in {e} |-> ent[e]], <<e>>, delta, FALSE).world[e]

\* C19: the update of an entity reads and writes only its own timer and frame
\* index: after a call of animate_characters over two entities, in either
\* iteration order, the frame index and the timer of each entity are what the
\* call would have left had the entity been the only one.
C19_EntitiesIndependent ==
    [][AnimateStep =>
         \E delta \in Deltas :
            \A e \in DOMAIN ent :
               /\ ent'[e].atlas = UpdatedAlone(e, delta).atlas
               /\ ent'[e].duration = UpdatedAlone(e, delta).duration
               /\ ent'[e].elapsed = UpdatedAlone(e, delta).elapsed]_vars

\* C19 witness: one call advanced entity 1 from frame 13 to 14, its timer
\* wrapping to 0, and pinned the idle entity 2 to frame 12 with its elapsed
\* accumulator still 1
C19_Witness ==
    /\ DOMAIN ent = PairEntities
    /\ ent[1].branch = "advance" /\ ent[1].atlas = Some(14) /\ ent[1].elapsed = 0
    /\ ent[2].branch = "idle" /\ ent[2].atlas = Some(12) /\ ent[2].elapsed = 1

\* the components are inserted in this step
InsertStep(e) == ~ent[e].has /\ ent'[e].has

\* the defaults of AnimationController, AnimationState and AnimationTimer
InsertedWithDefaults(e) ==
    /\ ent'[e].current_animation = "Walk"
    /\ ent'[e].facing = "Down"
    /\ ~ent'[e].is_moving /\ ~ent'[e].was_moving
    /\ ~ent'[e].is_jumping /\ ~ent'[e].was_jumping
    /\ ent'[e].duration = DEFAULT_ANIMATION_FRAME_TIME
    /\ ent'[e].elapsed = 0

\* animate_characters runs for the first time since the components of e were
\* inserted
FirstUpdate(e) == AnimateStep /\ ent[e].has /\ ent[e].just_inserted

\* the first frame of the Walk/Down clip in the config of e
WalkDownFirst(e) ==
    get_clip([current_animation |-> "Walk", facing |-> "Down"], Config(ent[e])).value.first

\* C20 as stated: the components are inserted with the defaults Walk, Down, the
\* four flags false and the default timer; so the first update after the
\* insertion detects no transition and leaves the frame index on the first
\* frame of the Walk/Down clip.
C20_AsStated ==
    [][\A e \in DOMAIN ent :
         /\ InsertStep(e) => InsertedWithDefaults(e)
         /\ FirstUpdate(e) =>
               /\ ~AnyTransition(e)
               /\ ent'[e].atlas = Some(WalkDownFirst(e))]_vars

\* C20 amended: the components are inserted with those defaults; the first
\* update after the insertion detects no transition and leaves the frame index
\* on the first frame of the Walk/Down clip provided no system has written the
\* motion flags or the controller before it in that tick (is_moving and
\* is_jumping still false, the controller still Walk/Down).
C20_DefaultsThenIdle ==
    [][\A e \in DOMAIN ent :
         /\ InsertStep(e) => InsertedWithDefaults(e)
         /\ (/\ FirstUpdate(e)
             /\ ~ent[e].is_moving /\ ~ent[e].is_jumping
             /\ ent[e].current_animation = "Walk" /\ ent[e].facing = "Down") =>
               /\ ~AnyTransition(e)
               /\ ent'[e].branch = "idle"
               /\ ent'[e].atlas = Some(WalkDownFirst(e))]_vars

\* C20 witness: in the tick after the insertion the first update has run before
\* any write of the flags or the controller, found no transition and moved the
\* frame index from 0 to 12, the first frame of Walk/Down
C20_Witness ==
    /\ ent[Player].has /\ ent[Player].just_inserted
    /\ ent[Player].branch = "idle"
    /\ {"move_player", "update_jump_state", "update_animation_flags"} \subseteq pending
    /\ ent[Player].current_animation = "Walk" /\ ent[Player].facing = "Down"
    /\ ~ent[Player].is_moving /\ ~ent[Player].was_moving
    /\ ~ent[Player].is_jumping /\ ~ent[Player].was_jumping
    /\ ent[Player].entry = 0
    /\ ent[Player].atlas = Some(12)

\* C21: whenever the steady-state branch of the update advances the timer, the
\* timer's duration is the frame_time of the controller's current animation
\* kind in the entity's current config, whatever flag writes, facing changes,
\* kind changes and character switches came before.
C21_DurationIsFrameTime ==
    [][AnimateStep /\ ~crashed' =>
         \A e \in DOMAIN ent :
            (Updated(e) /\ ~AnyTransition(e) /\ Animating(e)) =>
                ent[e].duration = Def(e).frame_time]_vars

\* C22: next is closed on the clip and cycles through it: next(idx) lies in
\* [first, last] for every idx in [first, last], next(idx) = first for every
\* idx > last, and next applied frame_count times from an idx of the clip comes
\* back to idx having visited every frame of the clip exactly once; for
\* idx < first - 1, next(idx) = idx + 1 lies outside the clip.
C22_NextClosedCycle ==
    LET clip == ClipOf(call.clip)
    IN  /\ Called("next") =>
              /\ (clip.first <= call.index /\ call.index <= clip.last) =>
                     (clip.first <= call.ret /\ call.ret <= clip.last)
              /\ call.index > clip.last => call.ret = clip.first
              /\ call.index < clip.first - 1 =>
                     /\ call.ret = call.index + 1
                     /\ ~(clip.first <= call.ret /\ call.ret <= clip.last)
        /\ (Called("next_cycle") /\ clip.first <= call.index /\ call.index <= clip.last) =>
              /\ Len(call.ret) = call.clip.frame_count
              /\ call.ret[Len(call.ret)] = call.index
              /\ {call.ret[k] : k \in DOMAIN call.ret} = clip.first .. clip.last
              /\ \A j, k \in DOMAIN call.ret : call.ret[j] = call.ret[k] => j = k

\* C22 witness: from frame 14 of the clip [12,15] four applications of next
\* visit 15, 12, 13 and come back to 14
C22_Witness ==
    /\ Called("next_cycle")
    /\ call.clip = [row |-> 2, frame_count |-> 4, atlas_columns |-> 6]
    /\ call.index = 14
    /\ call.ret = <<15, 12, 13, 14>>

\* C23: while an entity stays in the steady-state animating branch and every
\* tick has a positive delta-time, the frames follow each other in increasing
\* order with a wrap from last to first, and every frame index of the clip is
\* displayed again and again: the animation never stays on one frame forever.
C23_EveryFrameAgainAndAgain ==
    /\ [][AnimateStep =>
            ent'[Player].atlas.value \in
                {ClampedIndex(Player), Advance(Player, ClampedIndex(Player))}]_vars
    /\ \A k \in 0 .. MaxFrames - 1 :
          []<>(Clip(Player).first + k <= Clip(Player).last =>
                  ent[Player].atlas = Some(Clip(Player).first + k))

\* C23 witness: steady walking facing Down, the timer (duration 2) has just
\* elapsed, its accumulator is back to 0, and the frame has wrapped from 15 to 12
C23_Witness ==
    /\ pending = {"update_animation_flags"}
    /\ ent[Player].branch = "advance" /\ ~ent[Player].clamped
    /\ ent[Player].is_moving /\ ent[Player].was_moving
    /\ ent[Player].entry = 0
    /\ ent[Player].current_animation = "Walk" /\ ent[Player].facing = "Down"
    /\ ent[Player].duration = 2 /\ ent[Player].elapsed = 0
    /\ ent[Player].atlas = Some(12)

SwitchStep ==
    "switch_character" \in pending /\ "switch_character" \notin pending'

\* C24: switch_character changes CurrentCharacterIndex, the player's
\* CharacterEntry or its sprite only for a valid selection (list loaded, index
\* below the number of characters); a changed index is below the number of
\* characters, and the index always equals that of the CharacterEntry the
\* player carries.
C24_SwitchOnlyValid ==
    [][/\ (SwitchStep /\ (character_index' # character_index \/ ent' # ent)) =>
            /\ loaded
            /\ character_index' < NumCharacters
       /\ character_index' # character_index => character_index' < NumCharacters
       /\ ent'[Player].has => character_index' = ent'[Player].entry]_vars

\* C25: after any sequence of calls of PerformanceMonitor::update, frame_times
\* holds at most max_frame_times (60) entries, and they are the most recent
\* delta-times in arrival order: the oldest entry is the one dropped.
C25_LastSixtyFrameTimes ==
    LET kept == IF monitor.arrivals < 60 THEN monitor.arrivals ELSE 60
    IN  /\ Len(monitor.frame_times) <= 60
        /\ Len(monitor.frame_times) = kept
        /\ \A i \in 1 .. kept :
              monitor.frame_times[i] = monitor.arrivals - kept + i

\* C25 witness: after 62 calls the 60 entries are the delta-times of the calls
\* 3 to 62: those of the first two calls were dropped
C25_Witness ==
    /\ monitor.arrivals = 62
    /\ Len(monitor.frame_times) = 60
    /\ monitor.frame_times[1] = 3
    /\ monitor.frame_times[60] = 62

====
